---- MODULE Spec2Model ----
\* A model of git_hooks/encode.py: the directory-tree codec (write_header,
\* read_header, encode_directory, decode_file, decode_symlink,
\* decode_directory, decode_stream).
\*
\* Text and bytes are sequences of tokens.  A token is a tuple: <<c>> for a
\* character (payload bytes are single characters, the words of a header
\* such as "type" or "directory" are one token each), and <<"sha256">> \o fed
\* for the 64 hex characters of the SHA-256 digest of the token sequence fed
\* (SHA-256 is treated as injective).
EXTENDS Integers, Sequences, FiniteSets, TLC

\* ---------------------------------------------------------------- bounds
MaxDepth == 1
MaxCalls == 2
MaxVersions == 3
MaxLinks == 2
MaxLines == 2

\* ---------------------------------------------------------------- text
Ch(c) == <<c>>
T(s) == [i \in 1..Len(s) |-> <<s[i]>>]
NL == <<Ch("\n")>>

\* Python values whose type decides an equality or a conversion.
PyStr(t) == [ty |-> "str", v |-> t]
PyBytes(t) == [ty |-> "bytes", v |-> t]
PyInt(n) == [ty |-> "int", int |-> n]
PyPath(isabs, parts) == [ty |-> "Path", abs |-> isabs, parts |-> parts]
RelPath(parts) == PyPath(FALSE, parts)

SEPARATOR == T(<<"-", "-", "-", "-", "-", "-", "-", "-">>)

Digits == <<"0", "1", "2", "3", "4", "5", "6", "7", "8", "9">>

RECURSIVE IntStr(_)
IntStr(n) ==
    IF n < 10 THEN <<Ch(Digits[n + 1])>>
    ELSE IntStr(n \div 10) \o <<Ch(Digits[(n % 10) + 1])>>

RECURSIVE JoinWith(_, _)
JoinWith(parts, sep) ==
    IF parts = <<>> THEN <<>>
    ELSE IF Len(parts) = 1 THEN parts[1]
    ELSE parts[1] \o sep \o JoinWith(Tail(parts), sep)

\* str(Path): "." for the empty relative path, parts joined by "/".
PathStr(p) ==
    IF p.parts = <<>> THEN (IF p.abs THEN T(<<"/">>) ELSE T(<<".">>))
    ELSE (IF p.abs THEN T(<<"/">>) ELSE <<>>)
         \o JoinWith([i \in 1..Len(p.parts) |-> <<Ch(p.parts[i])>>], T(<<"/">>))

\* f'{value}'
Format(value) ==
    CASE value.ty = "int" -> IntStr(value.int)
      [] value.ty = "Path" -> PathStr(value)
      [] OTHER -> value.v

\* hash(data), update(hash, data), hexdigest(): the accumulator is the
\* sequence of tokens fed so far, the digest one token naming that sequence.
hash(data) == data
update(h, data) == h \o data
hexdigest(h) == <<"sha256">> \o h
HexStr(h) == <<hexdigest(h)>>

\* ---------------------------------------------------------------- headers
\* A header is an ordered dict: a sequence of [key, val].
Field(k, v) == [key |-> k, val |-> v]

K(word) == T(<<word>>)

DirectoryHeader(name) ==
    <<Field(K("type"), PyStr(K("directory"))), Field(K("name"), name)>>
FileHeader(name, sha, length) ==
    <<Field(K("type"), PyStr(K("file"))), Field(K("name"), name),
      Field(K("sha256"), PyStr(sha)), Field(K("length"), PyInt(length))>>
SymlinkHeader(name, target) ==
    <<Field(K("type"), PyStr(K("symlink"))), Field(K("name"), name),
      Field(K("target"), target)>>
DirectoryFooter(name, sha) ==
    <<Field(K("type"), PyStr(K("footer"))), Field(K("name"), name),
      Field(K("sha"), PyStr(sha))>>

HasKey(header, k) == \E i \in 1..Len(header) : header[i].key = k
Get(header, k) == header[CHOOSE i \in 1..Len(header) : header[i].key = k].val

\* write_header, lines 78-79: the frame text.
HeaderText(header) ==
    LET keys == [i \in 1..Len(header) |->
                    header[i].key \o <<Ch(":")>> \o Format(header[i].val)]
    IN NL \o SEPARATOR \o NL \o JoinWith(keys, NL) \o NL \o SEPARATOR \o NL

\* The output file: the bytes written, how many of them are not flushed yet,
\* and a history of the frames written (header, first index of the frame in
\* out, frame length, the string write_header returned, the bytes left
\* unflushed when it returned).
NewOutput == [out |-> <<>>, log |-> <<>>, pending |-> 0]

FrameRecord(header, w, text, unflushed) ==
    [hdr |-> header, at |-> Len(w.out) + 1, len |-> Len(text), text |-> text,
     unflushed |-> unflushed]

\* write_header without line 82: the frame stays in the buffer.
write_header_unflushed(header, w) ==
    [w |-> [out |-> w.out \o HeaderText(header),
            log |-> Append(w.log, FrameRecord(header, w, HeaderText(header),
                                              w.pending + Len(HeaderText(header)))),
            pending |-> w.pending + Len(HeaderText(header))],
     text |-> HeaderText(header)]

\* write_header, lines 80-83: writes the encoded frame, flushes, returns the
\* text.
write_header(header, w) ==
    [w |-> [out |-> w.out \o HeaderText(header),
            log |-> Append(w.log, FrameRecord(header, w, HeaderText(header), 0)),
            pending |-> 0],
     text |-> HeaderText(header)]

\* f_output.write(data)
Write(w, data) == [w EXCEPT !.out = @ \o data, !.pending = @ + Len(data)]

\* ---------------------------------------------------------------- state
VARIABLES
    fs,        \* the source tree: real path under root -> node
    enc,       \* result of encode_directory(root, root, f_output)
    listing2,  \* the order the filesystem listed names in (iterdir) during
               \* the second encode of the same tree
    enc2,      \* result of the second encode_directory call
    inp,       \* the stream handed to the decoder
    how,       \* how inp was derived from the encoder's output
    dec,       \* result of the last decode call, with the materialized tree
    calls,     \* number of direct decode_file / decode_symlink calls made
    tmp,       \* the temporary directory and blob of the last scoped call
    rh,        \* result of the last direct read_header call
    sm,        \* outcome of the last smudge
    installed, \* the Houdini versions whose hotl command exists on disk
    gitconfig, \* the git configuration keys the filter uses
    gitattributes, \* the .gitattributes file of the working tree
    two,       \* two encode_directory invocations run statement by statement
    pc

vars == <<fs, enc, listing2, enc2, inp, how, dec, calls, tmp, rh, sm, installed,
          gitconfig, gitattributes, two, pc>>

\* The state outside the codec proper.
git == <<installed, gitconfig, gitattributes>>
side == <<tmp, rh, sm, git, two>>

\* ---------------------------------------------------------------- source tree
Names == <<"a", "b">>
DirName == "a"

Front(s) == SubSeq(s, 1, Len(s) - 1)
Last(s) == s[Len(s)]

Loc(area, path) == [area |-> area, path |-> path]
NoLoc == Loc("none", <<>>)
Node(kind, data, target) == [kind |-> kind, data |-> data, target |-> target]
Missing == Node("missing", <<>>, NoLoc)
DirNode == Node("dir", <<>>, NoLoc)
FileNode(data) == Node("file", data, NoLoc)
LinkNode(target) == Node("symlink", <<>>, target)
FifoNode == Node("fifo", <<>>, NoLoc)

EmptyMap == [p \in {} |-> Missing]

\* What lies outside root: a file, a directory with one file, nothing else.
Secret == T(<<"s">>)
OutsideFS ==
    (<<"f">> :> FileNode(Secret)) @@ (<<"d">> :> DirNode)
    @@ (<<"d", "a">> :> FileNode(Secret))

NodeIn(tree, loc) ==
    IF loc.path = <<>> THEN (IF loc.area = "none" THEN Missing ELSE DirNode)
    ELSE IF loc.area = "in"
         THEN (IF loc.path \in DOMAIN tree THEN tree[loc.path] ELSE Missing)
    ELSE IF loc.area = "out"
         THEN (IF loc.path \in DOMAIN OutsideFS THEN OutsideFS[loc.path] ELSE Missing)
    ELSE Missing
NodeAt(loc) == NodeIn(fs, loc)

Child(loc, n) == Loc(loc.area, loc.path \o <<n>>)

\* The location a path under root denotes, following symlinks (stat).
RECURSIVE Resolve(_)
Resolve(f) ==
    IF f = <<>> THEN Loc("in", <<>>)
    ELSE LET parent == Resolve(Front(f))
             c == IF NodeAt(parent).kind = "dir" THEN Child(parent, Last(f)) ELSE NoLoc
         IN IF NodeAt(c).kind = "symlink" THEN NodeAt(c).target ELSE c

\* The node a path itself names, not following a final symlink (lstat).
LNode(f) ==
    LET parent == Resolve(Front(f))
    IN IF NodeAt(parent).kind = "dir" THEN NodeAt(Child(parent, Last(f))) ELSE Missing

\* The number of symlinks the operating system follows to reach what the
\* path denotes; it follows at most MaxLinks in one lookup and fails the
\* lookup with ELOOP beyond that.
RECURSIVE LinksFollowed(_)
LinksFollowed(f) ==
    IF f = <<>> THEN 0
    ELSE LinksFollowed(Front(f)) + (IF LNode(f).kind = "symlink" THEN 1 ELSE 0)

\* Path.is_file, is_dir (stat) and is_symlink (lstat, which follows the
\* links of the parent path only): False when the lookup fails.
is_file(f) == LinksFollowed(f) <= MaxLinks /\ NodeAt(Resolve(f)).kind = "file"
is_dir(f) == LinksFollowed(f) <= MaxLinks /\ NodeAt(Resolve(f)).kind = "dir"
is_symlink(f) == LinksFollowed(Front(f)) <= MaxLinks /\ LNode(f).kind = "symlink"

\* dir.iterdir(): the children, in the order the filesystem lists them.
iterdir(dir, ord) ==
    LET present(n) == NodeAt(Child(Resolve(dir), n)).kind # "missing"
    IN [i \in 1..Len(SelectSeq(ord, present)) |-> dir \o <<SelectSeq(ord, present)[i]>>]

NameRank(n) == CHOOSE i \in 1..Len(Names) : Names[i] = n

\* The order of sorted(..., reverse=True).
PathGt(p, q) == NameRank(Last(p)) > NameRank(Last(q))

\* Path.__lt__ on siblings: by the last component.
PathLt(p, q) == NameRank(Last(p)) < NameRank(Last(q))

RECURSIVE InsertSorted(_, _)
InsertSorted(p, s) ==
    IF s = <<>> THEN <<p>>
    ELSE IF PathLt(s[1], p) THEN <<s[1]>> \o InsertSorted(p, Tail(s))
    ELSE <<p>> \o s

\* A listing used as the filesystem returned it.
unsorted(s) == s

RECURSIVE sorted(_)
sorted(s) == IF s = <<>> THEN <<>> ELSE InsertSorted(s[1], sorted(Tail(s)))

\* ---------------------------------------------------------------- encoder
Ok(w, digest) == [w |-> w, digest |-> digest, err |-> ""]
Raised(w, err) == [w |-> w, digest |-> <<>>, err |-> err]

\* A File entry whose declared length counts the trailing newline.
EncodeFileCountingNewline(f, w) ==
    LET data == NodeAt(Resolve(f)).data
        sha == HexStr(hash(data))
        wh == write_header(FileHeader(RelPath(f), sha, Len(data) + 1), w)
    IN [w |-> Write(Write(wh.w, data), NL), header |-> wh.text]

\* A File entry whose frame text is not what the accumulator is fed with:
\* the caller gets the content digest.
EncodeFileFeedsDigest(f, w) ==
    LET data == NodeAt(Resolve(f)).data
        sha == HexStr(hash(data))
        wh == write_header(FileHeader(RelPath(f), sha, Len(data)), w)
    IN [w |-> Write(Write(wh.w, data), NL), header |-> sha]

\* A File entry whose sha256 field does not come from the content.
EncodeFileBlindSha(f, w) ==
    LET data == NodeAt(Resolve(f)).data
        wh == write_header(FileHeader(RelPath(f), HexStr(hash(<<>>)), Len(data)), w)
    IN [w |-> Write(Write(wh.w, data), NL), header |-> wh.text]

\* encode_directory, the is_file() branch.
EncodeFile(f, w) ==
    LET data == NodeAt(Resolve(f)).data
        sha == HexStr(hash(data))
        wh == write_header(FileHeader(RelPath(f), sha, Len(data)), w)
    IN [w |-> Write(Write(wh.w, data), NL), header |-> wh.text]

\* A footer written for the root directory only.
EncodeFooterRootOnly(relpath, w, dirhash) ==
    IF relpath # <<>> THEN Ok(w, HexStr(dirhash))
    ELSE LET wf == write_header(DirectoryFooter(RelPath(relpath), HexStr(dirhash)), w)
         IN Ok(wf.w, HexStr(update(dirhash, wf.text)))

\* The digest returned is the one the footer declares, taken before the
\* footer frame is fed.
EncodeFooterDigestFirst(relpath, w, dirhash) ==
    LET wf == write_header(DirectoryFooter(RelPath(relpath), HexStr(dirhash)), w)
    IN Ok(wf.w, HexStr(dirhash))

\* encode_directory, the footer and the returned digest.
EncodeFooter(relpath, w, dirhash) ==
    LET wf == write_header(DirectoryFooter(RelPath(relpath), HexStr(dirhash)), w)
    IN Ok(wf.w, HexStr(update(dirhash, wf.text)))

RECURSIVE encode_directory(_, _, _)
RECURSIVE EncodeChildren(_, _, _, _, _)

\* encode_directory, the loop over sorted(dir.iterdir()) from child i on.
EncodeChildren(kids, i, w, dirhash, ord) ==
    IF i > Len(kids) THEN [w |-> w, dirhash |-> dirhash, err |-> ""]
    ELSE LET f == kids[i] IN
      IF is_file(f)
      THEN LET r == EncodeFile(f, w)
           IN EncodeChildren(kids, i + 1, r.w, update(dirhash, r.header), ord)
      ELSE IF is_dir(f)
      THEN LET r == encode_directory(f, w, ord)
           IN IF r.err # "" THEN [w |-> r.w, dirhash |-> dirhash, err |-> r.err]
              ELSE EncodeChildren(kids, i + 1, r.w, update(dirhash, r.digest), ord)
      ELSE IF is_symlink(f)
      THEN LET t == Resolve(f)
           IN IF t.area # "in"
              THEN [w |-> w, dirhash |-> dirhash, err |-> "ValueError: not in the subpath"]
              ELSE LET wh == write_header(SymlinkHeader(RelPath(f), RelPath(t.path)), w)
                   IN EncodeChildren(kids, i + 1, wh.w, update(dirhash, wh.text), ord)
      ELSE [w |-> w, dirhash |-> dirhash, err |-> "ValueError: Unknown file type"]

encode_directory(dir, w, ord) ==
    LET wh == write_header(DirectoryHeader(RelPath(dir)), w)
        r == EncodeChildren(sorted(iterdir(dir, ord)), 1, wh.w, hash(wh.text), ord)
    IN IF r.err # "" THEN Raised(r.w, r.err)
       ELSE EncodeFooter(dir, r.w, r.dirhash)

\* ---------------------------------------------------------------- encoder, stepwise
\* encode_directory as it executes: an invocation is its stack of activations
\* (directory, sorted children, index of the next child), its output, and
\* what it returned or raised.  The accumulators live in acc, one per scope.
NewRun(dir) ==
    [dir |-> dir, stack |-> <<>>, w |-> NewOutput, digest |-> <<>>, err |-> "",
     st |-> "new"]
IdleRuns == [runs |-> <<>>, acc |-> EmptyMap, mixed |-> FALSE]

\* One accumulator per directory depth, whichever invocation is running.
SharedScope(k, depth) == <<0, depth>>

\* dirhash is a local variable of an activation: the scope at depth depth of
\* invocation k has its own.
Scope(k, depth) == <<k, depth>>

\* Lines 146-151 for directory dir: the header is written, dirhash created.
Enter(t, k, dir, wh) ==
    [t EXCEPT !.runs[k].stack = Append(@, [dir |-> dir,
                                           kids |-> sorted(iterdir(dir, Names)),
                                           i |-> 1]),
              !.runs[k].w = wh.w,
              !.runs[k].st = "running",
              !.acc = (Scope(k, Len(t.runs[k].stack) + 1) :> hash(wh.text)) @@ @]

\* update(dirhash, text) in the innermost activation, then the next child;
\* w is the output after the child was written.
Fed(t, k, w, text) ==
    [t EXCEPT !.runs[k].w = w,
              !.runs[k].stack[Len(t.runs[k].stack)].i = @ + 1,
              !.acc[Scope(k, Len(t.runs[k].stack))] = update(@, text)]

\* The exception is caught and the invocation begun again on a new output.
RestartOnError(t, k, err) == [t EXCEPT !.runs[k] = NewRun(t.runs[k].dir)]

\* raise: the invocation ends with the exception.
Raise(t, k, err) == [t EXCEPT !.runs[k].st = "raised", !.runs[k].err = err]

\* Lines 169-172: r is what the footer and the return gave; the activation
\* ends, and its caller, line 162, feeds the digest returned.
Leave(t, k, r) ==
    IF Len(t.runs[k].stack) = 1
    THEN [t EXCEPT !.runs[k].stack = <<>>, !.runs[k].w = r.w,
                   !.runs[k].digest = r.digest, !.runs[k].st = "done"]
    ELSE Fed([t EXCEPT !.runs[k].stack = Front(@)], k, r.w, r.digest)

\* Lines 151-168 for the child f of the innermost activation.
StepChild(t, k, f) ==
    IF is_file(f)
    THEN Fed(t, k, EncodeFile(f, t.runs[k].w).w, EncodeFile(f, t.runs[k].w).header)
    ELSE IF is_dir(f)
    THEN Enter(t, k, f, write_header(DirectoryHeader(RelPath(f)), t.runs[k].w))
    ELSE IF is_symlink(f)
    THEN IF Resolve(f).area # "in"
         THEN Raise(t, k, "ValueError: not in the subpath")
         ELSE Fed(t, k,
                  write_header(SymlinkHeader(RelPath(f), RelPath(Resolve(f).path)),
                               t.runs[k].w).w,
                  write_header(SymlinkHeader(RelPath(f), RelPath(Resolve(f).path)),
                               t.runs[k].w).text)
    ELSE Raise(t, k, "ValueError: Unknown file type")

\* The next statements of invocation k.
StepRun(t, k) ==
    LET depth == Len(t.runs[k].stack) IN
    IF t.runs[k].st = "new"
    THEN Enter(t, k, t.runs[k].dir,
               write_header(DirectoryHeader(RelPath(t.runs[k].dir)), t.runs[k].w))
    ELSE IF t.runs[k].stack[depth].i <= Len(t.runs[k].stack[depth].kids)
    THEN StepChild(t, k, t.runs[k].stack[depth].kids[t.runs[k].stack[depth].i])
    ELSE Leave(t, k, EncodeFooter(t.runs[k].stack[depth].dir, t.runs[k].w,
                                  t.acc[Scope(k, depth)]))

\* ---------------------------------------------------------------- header reader
NoErr == [exc |-> "", msg |-> ""]
Err(exc, msg) == [exc |-> exc, msg |-> msg]

IsSpace(tok) == tok \in {Ch(" "), Ch("\n"), Ch("\t"), Ch("\r")}

RECURSIVE LStrip(_)
LStrip(t) == IF t # <<>> /\ IsSpace(t[1]) THEN LStrip(Tail(t)) ELSE t
RECURSIVE RStrip(_)
RStrip(t) == IF t # <<>> /\ IsSpace(t[Len(t)]) THEN RStrip(Front(t)) ELSE t
\* bytes.strip()
Strip(t) == RStrip(LStrip(t))

\* The index of the first token tok of s at or after pos, or Len(s) + 1.
RECURSIVE Find(_, _, _)
Find(s, tok, pos) ==
    IF pos > Len(s) THEN Len(s) + 1
    ELSE IF s[pos] = tok THEN pos
    ELSE Find(s, tok, pos + 1)

\* next(f_input): one line, its newline included, or the rest of the input.
ReadLine(s, pos) ==
    LET e == Find(s, Ch("\n"), pos)
        last == IF e > Len(s) THEN Len(s) ELSE e
    IN [line |-> SubSeq(s, pos, last), pos |-> last + 1]

\* line.split(b':', 2): at most two splits.
SplitColon(t) ==
    LET c1 == Find(t, Ch(":"), 1)
        c2 == Find(t, Ch(":"), c1 + 1)
    IN IF c1 > Len(t) THEN <<t>>
       ELSE IF c2 > Len(t) THEN <<SubSeq(t, 1, c1 - 1), SubSeq(t, c1 + 1, Len(t))>>
       ELSE <<SubSeq(t, 1, c1 - 1), SubSeq(t, c1 + 1, c2 - 1), SubSeq(t, c2 + 1, Len(t))>>

DigitValue(tok) == CHOOSE d \in 0..9 : Ch(Digits[d + 1]) = tok
IsDigit(tok) == \E d \in 0..9 : Ch(Digits[d + 1]) = tok

RECURSIVE DecimalValue(_)
DecimalValue(t) ==
    IF t = <<>> THEN 0 ELSE 10 * DecimalValue(Front(t)) + DigitValue(t[Len(t)])

\* int(value)
IsDecimal(t) == Strip(t) # <<>> /\ \A i \in 1..Len(Strip(t)) : IsDigit(Strip(t)[i])

\* Path(text): the components between "/", without "." and empty ones.  A
\* component is a name when it is one character token, "?" otherwise.
RECURSIVE PathParts(_)
PathParts(t) ==
    IF t = <<>> THEN <<>>
    ELSE LET e == Find(t, Ch("/"), 1)
             comp == SubSeq(t, 1, e - 1)
             rest == IF e >= Len(t) THEN <<>> ELSE SubSeq(t, e + 1, Len(t))
             part == IF Len(comp) = 1 /\ Len(comp[1]) = 1 THEN comp[1][1] ELSE "?"
         IN IF comp = <<>> \/ comp = T(<<".">>) THEN PathParts(rest)
            ELSE <<part>> \o PathParts(rest)
ParsePath(t) == PyPath(t # <<>> /\ t[1] = Ch("/"), PathParts(t))

\* cls.__annotations__: the declared type of a field of the class, str when
\* the class does not declare the field.
Annotation(cls, key) ==
    CASE key = K("type") -> "EntryType"
      [] key = K("name") -> "Path"
      [] key = K("target") /\ cls = "SymlinkHeader" -> "Path"
      [] key = K("length") /\ cls = "FileHeader" -> "int"
      [] OTHER -> "str"

\* header[key] = value on a dict kept as a sequence of fields.
DictSet(header, k, v) ==
    IF \E i \in 1..Len(header) : header[i].key = k
    THEN [i \in 1..Len(header) |-> IF header[i].key = k THEN Field(k, v) ELSE header[i]]
    ELSE Append(header, Field(k, v))

Returned(header, pos) == [hdr |-> header, pos |-> pos, err |-> NoErr]
Failed(pos, err) == [hdr |-> <<>>, pos |-> pos, err |-> err]

\* line == SEPARATOR and line == '': a line read from the binary input is a
\* bytes object, SEPARATOR and '' are str objects.
IsSeparatorLine(line) == line = PyStr(SEPARATOR)
IsBlankLine(line) == line = PyStr(<<>>)

RECURSIVE ReadHeaderLoop(_, _, _, _, _)

\* read_header, lines 104-115: the code after the match statement.
ReadField(cls, s, pos, separators, header, line) ==
    LET kv == SplitColon(line.v) IN
    IF Len(kv) # 2 THEN Failed(pos, Err("ValueError", "unpack"))
    ELSE LET key == Strip(kv[1])
             value == kv[2]
             key_type == Annotation(cls, key)
         IN CASE key_type = "int" ->
                    IF IsDecimal(value)
                    THEN ReadHeaderLoop(cls, s, pos, separators,
                                        DictSet(header, key, PyInt(DecimalValue(Strip(value)))))
                    ELSE Failed(pos, Err("ValueError", "invalid literal for int()"))
              [] key_type = "Path" ->
                    ReadHeaderLoop(cls, s, pos, separators,
                                   DictSet(header, key, ParsePath(value)))
              [] key_type = "EntryType" ->
                    Failed(pos, Err("TypeError", "not callable"))
              [] OTHER ->
                    ReadHeaderLoop(cls, s, pos, separators,
                                   DictSet(header, key,
                                           PyStr(<<Ch("b'")>> \o value \o <<Ch("'")>>)))

\* read_header, lines 91-103 and 116: the loop over the lines of f_input.
ReadHeaderLoop(cls, s, pos, separators, header) ==
    IF pos > Len(s) THEN Returned(header, pos)
    ELSE LET rl == ReadLine(s, pos)
             line == PyBytes(Strip(rl.line))
         IN IF separators = 0 THEN Returned(header, rl.pos)
            ELSE IF IsSeparatorLine(line)
                 THEN ReadField(cls, s, rl.pos, separators - 1, header, line)
            ELSE IF IsBlankLine(line)
                 THEN ReadHeaderLoop(cls, s, rl.pos, separators, header)
            ELSE Returned(header, rl.pos)

read_header(cls, s, pos) == ReadHeaderLoop(cls, s, pos, 2, <<>>)

\* ---------------------------------------------------------------- decoder
\* The materialization: what exists under root (path -> node, a link node
\* keeping its target text), what was created outside root, the position
\* in the input, and the footers verified so far.
NewDecode == [pos |-> 1, mat |-> EmptyMap, esc |-> {}, footers |-> <<>>]

\* The place a relative path under root names, ".." taken lexically.
RECURSIVE Norm(_, _, _)
Norm(parts, cur, up) ==
    IF parts = <<>> THEN Loc(IF up = 0 THEN "in" ELSE "out", cur)
    ELSE IF parts[1] = ".."
         THEN (IF cur # <<>> THEN Norm(Tail(parts), Front(cur), up)
               ELSE Norm(Tail(parts), <<>>, up + 1))
    ELSE Norm(Tail(parts), cur \o <<parts[1]>>, up)

MatKind(mat, loc) ==
    IF loc.area = "in" /\ loc.path \in DOMAIN mat THEN mat[loc.path].kind
    ELSE IF loc.path = <<>> THEN "dir"
    ELSE "missing"

ParentIsDir(mat, loc) ==
    \/ Len(loc.path) <= 1
    \/ MatKind(mat, Loc(loc.area, Front(loc.path))) = "dir"

\* The place open() or symlink_to() acts on: a final symlink is followed by
\* open(), its text taken relative to the link's directory.
OpenLoc(mat, loc) ==
    IF MatKind(mat, loc) = "symlink"
    THEN Norm(Front(loc.path) \o mat[loc.path].target.path, <<>>, 0)
    ELSE loc

Put(d, loc, node) ==
    IF loc.area = "in"
    THEN [d EXCEPT !.mat = (loc.path :> node) @@ d.mat]
    ELSE [d EXCEPT !.esc = @ \cup {loc.path}]

DOk(d, value) == [d |-> d, value |-> value, err |-> NoErr]
DRaised(d, err) == [d |-> d, value |-> <<>>, err |-> err]

\* f_input.read(length)
ReadBytes(s, pos, length) ==
    LET last == IF length < 0 \/ pos + length - 1 > Len(s) THEN Len(s)
                ELSE pos + length - 1
    IN [data |-> SubSeq(s, pos, last), pos |-> last + 1]

decode_file(s, d, file_header) ==
    IF ~HasKey(file_header, K("name")) \/ ~HasKey(file_header, K("length"))
    THEN DRaised(d, Err("KeyError", "name or length"))
    ELSE LET name == Get(file_header, K("name"))
             length == Get(file_header, K("length"))
         IN IF name.ty # "Path" \/ length.ty # "int"
            THEN DRaised(d, Err("TypeError", "name or length"))
            ELSE IF name.abs
            THEN DRaised(d, Err("ValueError", "not in the subpath"))
            ELSE LET loc == OpenLoc(d.mat, Norm(name.parts, <<>>, 0))
                     rd == ReadBytes(s, d.pos, length.int)
                     sha == PyStr(HexStr(hash(rd.data)))
                     d1 == [Put(d, loc, FileNode(rd.data)) EXCEPT !.pos = rd.pos]
                 IN IF ~ParentIsDir(d.mat, loc)
                    THEN DRaised(d, Err("FileNotFoundError", "open"))
                    ELSE IF MatKind(d.mat, loc) = "dir"
                    THEN DRaised(d, Err("IsADirectoryError", "open"))
                    ELSE IF ~HasKey(file_header, K("sha256"))
                    THEN DRaised(d1, Err("KeyError", "sha256"))
                    ELSE IF sha # Get(file_header, K("sha256"))
                    THEN DRaised(d1, Err("ValueError", "File hash mismatch"))
                    ELSE DOk(d1, sha.v)

decode_symlink(d, sl_header) ==
    IF ~HasKey(sl_header, K("name")) \/ ~HasKey(sl_header, K("target"))
    THEN DRaised(d, Err("KeyError", "name or target"))
    ELSE LET name == Get(sl_header, K("name"))
             target == Get(sl_header, K("target"))
         IN IF name.ty # "Path" \/ target.ty \notin {"Path", "str"}
            THEN DRaised(d, Err("TypeError", "name or target"))
            ELSE IF target.ty = "Path" /\ target.abs
            THEN DRaised(d, Err("ValueError", "not in the subpath"))
            ELSE LET loc == Norm(name.parts, <<>>, 0)
                     text == IF target.ty = "Path" THEN target.parts ELSE <<"?">>
                 IN IF name.abs
                    THEN DOk([d EXCEPT !.esc = @ \cup {name.parts}], <<>>)
                    ELSE IF ~ParentIsDir(d.mat, loc)
                    THEN DRaised(d, Err("FileNotFoundError", "symlink"))
                    ELSE IF MatKind(d.mat, loc) # "missing"
                    THEN DOk(d, <<>>)
                    ELSE DOk(Put(d, loc, LinkNode(Loc("text", text))), <<>>)

\* A loop that ends without an else clause: the function returns None.
NoElseClause(d) == DOk(d, <<>>)

\* decode_directory, the else clause of the while loop.
OnNoHeader(d) == DRaised(d, Err("ValueError", "Unexpected EOF"))

RECURSIVE decode_directory(_, _, _)
RECURSIVE DecodeLoop(_, _, _, _)

TypeIs(header, word) == Get(header, K("type")) = PyStr(K(word))

\* update(dir_hash, <the entry decoded>) and the next turn of the loop; r is
\* the outcome of decoding the entry.
NextEntry(s, r, dir_hash, depth) ==
    IF r.err # NoErr THEN r
    ELSE DecodeLoop(s, r.d, update(dir_hash, r.value), depth)

\* decode_directory, the footer case: declared is header['sha'].
DecodeFooter(d0, declared, dir_hash, depth) ==
    LET seen == [d0 EXCEPT !.footers =
                    Append(@, [depth |-> depth, declared |-> declared,
                               accumulated |-> HexStr(dir_hash)])]
    IN IF PyStr(HexStr(dir_hash)) # declared
       THEN DRaised(seen, Err("ValueError", "Directory hash mismatch"))
       ELSE DOk(seen, HexStr(dir_hash))

\* decode_directory, the body of the while loop for the header hdr just read,
\* the input now at d0.pos.
DecodeEntry(s, d0, hdr, dir_hash, depth) ==
    IF hdr = <<>> THEN OnNoHeader(d0)
    ELSE IF ~HasKey(hdr, K("type")) THEN DRaised(d0, Err("KeyError", "type"))
    ELSE IF TypeIs(hdr, "file")
         THEN NextEntry(s, decode_file(s, d0, hdr), dir_hash, depth)
    ELSE IF TypeIs(hdr, "symlink")
         THEN NextEntry(s, decode_symlink(d0, hdr), dir_hash, depth)
    ELSE IF TypeIs(hdr, "directory")
         THEN NextEntry(s, decode_directory(s, d0, depth + 1), dir_hash, depth)
    ELSE IF TypeIs(hdr, "footer")
         THEN IF ~HasKey(hdr, K("sha")) THEN DRaised(d0, Err("KeyError", "sha"))
              ELSE DecodeFooter(d0, Get(hdr, K("sha")), dir_hash, depth)
    ELSE DRaised(d0, Err("ValueError", "Unknown header"))

\* decode_directory, the loop condition: r is what read_header gave.
AfterHeader(s, d, r, dir_hash, depth) ==
    IF r.err # NoErr THEN DRaised([d EXCEPT !.pos = r.pos], r.err)
    ELSE DecodeEntry(s, [d EXCEPT !.pos = r.pos], r.hdr, dir_hash, depth)

\* decode_directory, the while loop with dir_hash accumulated so far.
DecodeLoop(s, d, dir_hash, depth) ==
    AfterHeader(s, d, read_header("Header", s, d.pos), dir_hash, depth)

decode_directory(s, d, depth) == DecodeLoop(s, d, hash(<<>>), depth)

\* decode_directory(Path(tmpdir), header, f_input) after read_header gave h.
DecodeAfter(s, h) ==
    IF h.err # NoErr THEN DRaised(NewDecode, h.err)
    ELSE decode_directory(s, [NewDecode EXCEPT !.pos = h.pos], 0)

\* if not decode_directory(...): raise DecoderFailure
RaiseIfFalsy(r) ==
    IF r.err = NoErr /\ r.value = <<>>
    THEN DRaised(r.d, Err("DecoderFailure", "Failed to decode"))
    ELSE r

\* decode_stream up to its yield: the exception that leaves it, if any.
decode_stream(s) ==
    RaiseIfFalsy(DecodeAfter(s, read_header("DirectoryHeader", s, 1)))

\* ---------------------------------------------------------------- scoped resources
\* The temporary directory and the temporary blob of a call: "none", "live"
\* or "removed"; left is what the call wrote that lies outside the directory.
NoTemp == [dir |-> "none", blob |-> "none", left |-> {}]

\* with TemporaryDirectory() as tmpdir: entered.
EnterTemporaryDirectory(t) == [t EXCEPT !.dir = "live"]

\* with NamedTemporaryFile(..., delete_on_close=False) as blob: entered.
EnterNamedTemporaryFile(t) == [t EXCEPT !.blob = "live"]

\* The directory is removed only when the block ends without an exception.
LeakOnError(t, err) == IF err = NoErr THEN [t EXCEPT !.dir = "removed"] ELSE t

\* Leaving the with block of a TemporaryDirectory, by its end, a return or an
\* exception err: the directory is removed with all it holds.
ExitTemporaryDirectory(t, err) == [t EXCEPT !.dir = "removed"]

\* Leaving the with block of the NamedTemporaryFile: the file is deleted.
ExitNamedTemporaryFile(t, err) == [t EXCEPT !.blob = "removed"]

\* The converter tool run with check=True: it ends well or raises.
CalledProcessError == Err("CalledProcessError", "non-zero exit status")
RunOutcomes == {NoErr, CalledProcessError}

\* The converter run on the temporary directory before the outcome of the
\* decode is looked at.
ConverterFirst(r, hotlErr) ==
    IF hotlErr # NoErr THEN [d |-> r.d, ret |-> "raised", err |-> hotlErr, ran |-> TRUE]
    ELSE IF r.err # NoErr THEN [d |-> r.d, ret |-> "raised", err |-> r.err, ran |-> TRUE]
    ELSE [d |-> r.d, ret |-> IF r.value = <<>> THEN "False" ELSE "True", err |-> NoErr,
          ran |-> TRUE]

\* smudge_via_decode, lines 264-269, given the outcome r of lines 264-265
\* (read_header, decode_directory) and the converter's outcome hotlErr.
SmudgeOutcome(r, hotlErr) ==
    IF r.err # NoErr THEN [d |-> r.d, ret |-> "raised", err |-> r.err, ran |-> FALSE]
    ELSE IF r.value = <<>> THEN [d |-> r.d, ret |-> "False", err |-> NoErr, ran |-> FALSE]
    ELSE IF hotlErr # NoErr THEN [d |-> r.d, ret |-> "raised", err |-> hotlErr, ran |-> TRUE]
    ELSE [d |-> r.d, ret |-> "True", err |-> NoErr, ran |-> TRUE]

\* smudge_via_decode(file, f_input, hotl): what it returns or raises, and
\* whether the converter was run.
smudge_via_decode(s, hotlErr) ==
    SmudgeOutcome(DecodeAfter(s, read_header("DirectoryHeader", s, 1)), hotlErr)

\* ---------------------------------------------------------------- the smudge filter
\* hda_filter.py.  The git configuration: hotl is the version whose hotl
\* command hdafilter.hotl names (0: the key is not set), lfs whether the
\* filter.lfs.* commands are configured, filter whether filter.hda.* are.
NoConfig == [hotl |-> 0, lfs |-> FALSE, filter |-> FALSE]

\* read_oid: three lines, joined by newlines.
read_oid(s) ==
    LET l1 == ReadLine(s, 1)
        l2 == ReadLine(s, l1.pos)
        l3 == ReadLine(s, l2.pos)
    IN [oid |-> JoinWith(<<l1.line, l2.line, l3.line>>, NL), pos |-> l3.pos]

RECURSIVE Header_read(_, _, _, _)

\* Header.read of hda_filter.py: the loop over the lines of f_input.
Header_read(s, pos, separators, header) ==
    IF pos > Len(s) THEN Returned(header, pos)
    ELSE IF separators = 0 THEN Returned(header, ReadLine(s, pos).pos)
    ELSE IF IsSeparatorLine(PyBytes(Strip(ReadLine(s, pos).line)))
         THEN Failed(ReadLine(s, pos).pos,
                     Err("TypeError", "a bytes-like object is required, not 'str'"))
    ELSE IF IsBlankLine(PyBytes(Strip(ReadLine(s, pos).line)))
         THEN Header_read(s, ReadLine(s, pos).pos, separators, header)
    ELSE Returned(header, ReadLine(s, pos).pos)

\* The while loop of hda_filter.decode_directory ends and an else clause
\* raises, as in encode.py.
LoopEndRaises == [value |-> "raised", err |-> Err("ValueError", "Unexpected EOF")]

\* The while loop of hda_filter.decode_directory ends: the function has no
\* statement after it and returns None.
LoopEnd == [value |-> "None", err |-> NoErr]

\* hda_filter.decode_directory with r what Header.read gave: an empty header
\* ends the loop, any other fails on header.type (a dict has no attributes).
hda_decode_directory(r) ==
    IF r.err # NoErr THEN [value |-> "raised", err |-> r.err]
    ELSE IF r.hdr = <<>> THEN LoopEnd
    ELSE [value |-> "raised", err |-> Err("AttributeError", "type")]

\* get_git_lfs and the run of the git-lfs smudge command on the pointer.
smudge_via_lfs(oid, config, lfsErr) ==
    IF ~config.lfs
    THEN [via |-> "lfs", ret |-> "raised", err |-> Err("SystemExit", "1"),
          ran |-> FALSE, lfs |-> <<>>, left |-> {}]
    ELSE [via |-> "lfs", ret |-> IF lfsErr = NoErr THEN "None" ELSE "raised",
          err |-> lfsErr, ran |-> FALSE, lfs |-> oid, left |-> {}]

\* smudge, lines 421-425, with r what decode_directory gave.
SmudgeAfterDecode(oid, config, r, lfsErr, hotlErr) ==
    IF r.err # NoErr
    THEN [via |-> "hotl", ret |-> "raised", err |-> r.err, ran |-> FALSE,
          lfs |-> <<>>, left |-> {}]
    ELSE IF r.value = "None" THEN smudge_via_lfs(oid, config, lfsErr)
    ELSE [via |-> "hotl", ret |-> IF hotlErr = NoErr THEN "None" ELSE "raised",
          err |-> hotlErr, ran |-> TRUE, lfs |-> <<>>, left |-> {}]

\* smudge(file, f_input, f_output) of hda_filter.py.  get_hotl calls
\* install() without its positional argument when the key is not set.
smudge(s, config, lfsErr, hotlErr) ==
    IF config.hotl = 0
    THEN [via |-> "none", ret |-> "raised",
          err |-> Err("TypeError", "install() missing 1 required positional argument"),
          ran |-> FALSE, lfs |-> <<>>, left |-> {}]
    ELSE SmudgeAfterDecode(read_oid(s).oid, config,
                           hda_decode_directory(Header_read(s, read_oid(s).pos, 2, <<>>)),
                           lfsErr, hotlErr)

\* ---------------------------------------------------------------- install
\* An argument that was not given (None); a hotl command is named by the
\* version of its installation.
None == 0

\* The Houdini versions a hotl command may be installed for.
Versions == 1..MaxVersions

\* sorted(..., reverse=True) of the candidate installations: newest first.
RECURSIVE Descending(_)
Descending(S) ==
    IF S = {} THEN <<>>
    ELSE <<CHOOSE x \in S : \A y \in S : y <= x>>
            \o Descending(S \ {CHOOSE x \in S : \A y \in S : y <= x})

\* locations(): the hotl path of every installation directory found.
locations(dirs) == Descending(dirs)

\* config(CONFIG_HOTL, value): git config sets the key when a value is given
\* and only reads it when value is None.
config(cfg, value) == IF value # None THEN [cfg EXCEPT !.hotl = value] ELSE cfg

\* config('filter.hda.clean', ...), ('filter.hda.smudge', ...), ('filter.hda.required', True)
ConfigFilter(cfg) == [cfg EXCEPT !.filter = TRUE]

\* install of install.py, lines 96-100: the loop over locations() from
\* candidate i on; each hit calls config(CONFIG_HOTL, hotl) with the argument.
RECURSIVE SearchHotl(_, _, _, _, _)
SearchHotl(locs, i, files, hotl, cfg) ==
    IF i > Len(locs) THEN cfg
    ELSE IF locs[i] \in files THEN SearchHotl(locs, i + 1, files, hotl, config(cfg, hotl))
    ELSE SearchHotl(locs, i + 1, files, hotl, cfg)

\* install(dir, hotl=hotl) of install.py; files are the versions whose hotl
\* command exists.
install(cfg, files, hotl) ==
    ConfigFilter(IF hotl = None THEN SearchHotl(locations(Versions), 1, files, hotl, cfg)
                 ELSE IF hotl \in files THEN config(cfg, hotl)
                 ELSE cfg)

\* install of hda_filter.py, lines 209-213: the loop variable is hotl itself.
RECURSIVE HdaSearchHotl(_, _, _, _)
HdaSearchHotl(locs, i, files, cfg) ==
    IF i > Len(locs) THEN cfg
    ELSE IF locs[i] \in files THEN HdaSearchHotl(locs, i + 1, files, config(cfg, locs[i]))
    ELSE HdaSearchHotl(locs, i + 1, files, cfg)

\* install(dir) of hda_filter.py, called without a hotl argument.
hda_install(cfg, files) == ConfigFilter(HdaSearchHotl(locations(Versions), 1, files, cfg))

\* ---------------------------------------------------------------- .gitattributes
\* attributes.py.  The file is a sequence of lines, a line a sequence of
\* tokens: a word, or one of the characters ' ', tab, '-', '='.  A dict is a
\* sequence of fields, as for headers.
UNSET == [state |-> "UNSET"]
SET == [state |-> "SET"]
GitAttribute(name, value) == [name |-> name, value |-> value]

\* line.split(' ', 1)
SplitSpace(t) ==
    IF Find(t, Ch(" "), 1) > Len(t) THEN <<t>>
    ELSE <<SubSeq(t, 1, Find(t, Ch(" "), 1) - 1), SubSeq(t, Find(t, Ch(" "), 1) + 1, Len(t))>>

\* The length of the first word of t, t starting with no whitespace.
RECURSIVE WordLen(_)
WordLen(t) == IF t = <<>> \/ IsSpace(t[1]) THEN 0 ELSE 1 + WordLen(Tail(t))

\* line.split()
RECURSIVE Split(_)
Split(t) ==
    IF LStrip(t) = <<>> THEN <<>>
    ELSE <<SubSeq(LStrip(t), 1, WordLen(LStrip(t)))>>
         \o Split(SubSeq(LStrip(t), WordLen(LStrip(t)) + 1, Len(LStrip(t))))

\* GitAttribute.parse: name, value = item.split('=', 2) fails to unpack when
\* the item holds two '=' or more.
ParseRaises(item) ==
    /\ item[1] # Ch("-")
    /\ Find(item, Ch("="), 1) <= Len(item)
    /\ Find(item, Ch("="), Find(item, Ch("="), 1) + 1) <= Len(item)

GitAttribute_parse(item) ==
    IF item[1] = Ch("-") THEN GitAttribute(Tail(item), UNSET)
    ELSE IF Find(item, Ch("="), 1) <= Len(item)
    THEN GitAttribute(SubSeq(item, 1, Find(item, Ch("="), 1) - 1),
                      PyStr(SubSeq(item, Find(item, Ch("="), 1) + 1, Len(item))))
    ELSE GitAttribute(item, SET)

\* GitAttribute.__str__
GitAttribute_str(attr) ==
    IF attr.value = UNSET THEN <<Ch("-")>> \o attr.name
    ELSE IF attr.value = SET THEN attr.name
    ELSE attr.name \o <<Ch("=")>> \o attr.value.v

\* self.attributes[attr.name] = attr for each of items from item i on.
RECURSIVE SetAll(_, _, _)
SetAll(attrs, items, i) ==
    IF i > Len(items) THEN attrs
    ELSE SetAll(DictSet(attrs, items[i].name, items[i]), items, i + 1)

\* GitAttributeSet.parse(line)
GitAttributeSet_parse(text) ==
    SetAll(<<>>, [i \in 1..Len(Split(text)) |-> GitAttribute_parse(Split(text)[i])], 1)

\* GitAttributeSet.__str__
GitAttributeSet_str(attrs) ==
    JoinWith([i \in 1..Len(attrs) |-> GitAttribute_str(attrs[i].val)], <<Ch(" ")>>)

\* set_attributes('-text', 'lockable', filter='hda', diff='hda', merge='hda')
set_attributes(attrs) ==
    SetAll(attrs,
           <<GitAttribute_parse(T(<<"-", "text">>)), GitAttribute_parse(K("lockable")),
             GitAttribute(K("filter"), PyStr(K("hda"))),
             GitAttribute(K("diff"), PyStr(K("hda"))),
             GitAttribute(K("merge"), PyStr(K("hda")))>>, 1)

\* The .gitattributes file: whether it exists, its lines, the contents it
\* had before each install so far, and the exception the last install
\* raised while reading it.
MissingFile == [exists |-> FALSE, lines |-> <<>>, was |-> <<>>, err |-> NoErr]
FileOf(lines) == [exists |-> TRUE, lines |-> lines, was |-> <<>>, err |-> NoErr]

\* GitAttributesFile.load: the dict comprehension over the lines from line i.
RECURSIVE LoadLines(_, _, _)
LoadLines(lines, i, attrs) ==
    IF i > Len(lines) THEN attrs
    ELSE IF Len(SplitSpace(lines[i])) = 2
    THEN LoadLines(lines, i + 1,
                   DictSet(attrs, SplitSpace(lines[i])[1],
                           GitAttributeSet_parse(SplitSpace(lines[i])[2])))
    ELSE LoadLines(lines, i + 1, attrs)

GitAttributesFile_load(file) == IF ~file.exists THEN <<>> ELSE LoadLines(file.lines, 1, <<>>)

\* Whether load raises: some item of a line it parses cannot be unpacked.
LoadRaises(file) ==
    \E i \in 1..Len(file.lines) :
        /\ Len(SplitSpace(file.lines[i])) = 2
        /\ \E item \in {Split(SplitSpace(file.lines[i])[2])[j] :
                          j \in 1..Len(Split(SplitSpace(file.lines[i])[2]))} :
             ParseRaises(item)

\* GitAttributesFile.__getitem__: the set of the key, created when missing.
GetSet(attrs, key) == IF HasKey(attrs, key) THEN Get(attrs, key) ELSE <<>>

\* GitAttributesFile.save: one line for every key with attributes.
save(attrs) ==
    LET NotEmpty(e) == Len(e.val) > 0
        kept == SelectSeq(attrs, NotEmpty)
    IN [i \in 1..Len(kept) |-> kept[i].key \o <<Ch(" ")>> \o GitAttributeSet_str(kept[i].val)]

HdaPattern == K("*.hda")

\* install of install.py, lines 128-130.
InstallAttributes(file) ==
    IF LoadRaises(file)
    THEN [file EXCEPT !.err = Err("ValueError", "too many values to unpack")]
    ELSE [exists |-> TRUE,
          lines |-> save(DictSet(GitAttributesFile_load(file), HdaPattern,
                                 set_attributes(GetSet(GitAttributesFile_load(file),
                                                       HdaPattern)))),
          was |-> Append(file.was, [exists |-> file.exists, lines |-> file.lines]),
          err |-> NoErr]

\* hda_filter.py, load_gitattribtes: line.split()[0] and [1] of every line,
\* from line i on; a line of fewer than two words has no [1].
HdaLoadRaises(file) == \E i \in 1..Len(file.lines) : Len(Split(file.lines[i])) < 2
RECURSIVE HdaLoadLines(_, _, _)
HdaLoadLines(lines, i, attrs) ==
    IF i > Len(lines) THEN attrs
    ELSE HdaLoadLines(lines, i + 1, DictSet(attrs, Split(lines[i])[1], Split(lines[i])[2]))
load_gitattribtes(file) == IF ~file.exists THEN <<>> ELSE HdaLoadLines(file.lines, 1, <<>>)

\* save_gitattributes
save_gitattributes(attrs) ==
    [i \in 1..Len(attrs) |-> attrs[i].key \o <<Ch(" ")>> \o attrs[i].val]

\* install of hda_filter.py, lines 238-240.
HdaInstallAttributes(file) ==
    IF HdaLoadRaises(file)
    THEN [file EXCEPT !.err = Err("IndexError", "list index out of range")]
    ELSE [exists |-> TRUE,
          lines |-> save_gitattributes(
                      DictSet(load_gitattribtes(file), HdaPattern,
                              T(<<"filter", "=", "hda", " ", "dif", "=", "hda", " ",
                                  "merge", "=", "hda", " ", "-", "text", " ", "lockable">>))),
          was |-> Append(file.was, [exists |-> file.exists, lines |-> file.lines]),
          err |-> NoErr]

\* ---------------------------------------------------------------- inputs
\* The lines a .gitattributes file may hold before install, and the files.
AttrLines ==
    {T(<<"*.c", " ", "text">>),
     T(<<"*.c", " ", "-", "text">>),
     T(<<"*.txt", "\t", "text">>),
     T(<<"#", " ", "generated">>),
     T(<<"*.hda", " ", "filter", "=", "lfs">>),
     T(<<"*.md", " ", " ", "eol", "=", "lf">>),
     T(<<"*.x", " ", "a", "=", "b", "=", "c">>)}
AttrFiles ==
    {MissingFile} \cup {FileOf(l) : l \in UNION {[1..n -> AttrLines] : n \in 0..MaxLines}}

Contents == {<<>>, T(<<"h", "i">>), SEPARATOR \o NL}
SubContents == {T(<<"x">>)}
\* What a file's bytes may be changed to: other lengths, and the same length.
ChangedContents == Contents \cup SubContents \cup {T(<<"i", "h">>), T(<<"y">>)}
Targets == {Loc("in", <<"a">>), Loc("in", <<"b">>), Loc("in", <<"m">>),
            Loc("out", <<"f">>), Loc("out", <<"d">>), Loc("out", <<"m">>)}
SubTargets == {Loc("out", <<"f">>)}

Leaves(d) ==
    IF d = 0
    THEN {FileNode(c) : c \in Contents} \cup {LinkNode(t) : t \in Targets} \cup {FifoNode}
    ELSE {FileNode(c) : c \in SubContents} \cup {LinkNode(t) : t \in SubTargets}

RECURSIVE NameTrees(_, _, _)
EntryTrees(p, d) ==
    {EmptyMap} \cup {p :> leaf : leaf \in Leaves(d)}
    \cup (IF d < MaxDepth /\ Last(p) = DirName
          THEN {(p :> DirNode) @@ sub : sub \in NameTrees(p, d + 1, 1)}
          ELSE {})
NameTrees(prefix, d, k) ==
    IF k > Len(Names) THEN {EmptyMap}
    ELSE {e @@ rest : e \in EntryTrees(prefix \o <<Names[k]>>, d),
                      rest \in NameTrees(prefix, d, k + 1)}

\* Link targets are real paths: no link points at another link.
WellFormed(tree) ==
    \A p \in DOMAIN tree :
        tree[p].kind = "symlink" => NodeIn(tree, tree[p].target).kind # "symlink"

Trees == {t \in NameTrees(<<>>, 0, 1) : WellFormed(t)}

Perms == {p \in [1..Len(Names) -> {Names[i] : i \in 1..Len(Names)}] :
            \A i, j \in 1..Len(Names) : i # j => p[i] # p[j]}

\* The trees two invocations encode together: the root, and its directory a.
PairTrees == {t \in Trees : NodeIn(t, Loc("in", <<DirName>>)).kind = "dir"}

\* The proper ancestors of the path p, root included.
Ancestors(p) == {SubSeq(p, 1, n) : n \in 0..(Len(p) - 1)}

\* The places of a tree that can hold one more leaf: a name in root or in a
\* directory, not the name of a directory.
LeafPlaces(t) ==
    {q \o <<Names[i]>> : q \in {<<>>} \cup {r \in DOMAIN t : t[r].kind = "dir"},
                         i \in 1..Len(Names)}
    \ {r \in DOMAIN t : t[r].kind = "dir"}

\* Trees with a symlink that points at one of its own ancestor directories
\* or at root.
LoopsOn(t) ==
    UNION {{(p :> LinkNode(Loc("in", anc))) @@ t : anc \in Ancestors(p)} :
           p \in LeafPlaces(t)}
\* The trees a looping link is added to: directories and files of one
\* content at each depth.
LoopBases ==
    {t \in Trees : \A p \in DOMAIN t :
        t[p].kind = "dir" \/ (t[p].kind = "file" /\ t[p].data \in SubContents \cup {<<>>})}
LoopTrees == UNION {LoopsOn(t) : t \in LoopBases}

NoResult == [w |-> NewOutput, digest |-> <<>>, err |-> "none"]

NoDecode == [d |-> NewDecode, value |-> <<>>, err |-> Err("none", "")]

NoRead == [src |-> "none", at |-> 0, cls |-> "Header", res |-> Failed(0, Err("none", ""))]

\* The class of the header a frame of the encoder's output was written from.
ClassOf(header) ==
    CASE Get(header, K("type")) = PyStr(K("file")) -> "FileHeader"
      [] Get(header, K("type")) = PyStr(K("symlink")) -> "SymlinkHeader"
      [] Get(header, K("type")) = PyStr(K("directory")) -> "DirectoryHeader"
      [] OTHER -> "DirectoryFooter"

\* Frames no header class allows: a line without ':', a field the kind does
\* not declare, a length that is no decimal number.
FrameOf(lines) == NL \o SEPARATOR \o NL \o JoinWith(lines, NL) \o NL \o SEPARATOR \o NL
MalformedFrames ==
    {FrameOf(<<T(<<"type", ":", "file">>), T(<<"name">>)>>),
     FrameOf(<<T(<<"type", ":", "file">>), T(<<"name", ":", "a">>),
               T(<<"target", ":", "b">>)>>),
     FrameOf(<<T(<<"type", ":", "file">>), T(<<"name", ":", "a">>),
               T(<<"sha256", ":", "x">>), T(<<"length", ":", "x">>)>>),
     FrameOf(<<T(<<"type", ":", "footer">>), T(<<"name", ":", ".">>),
               T(<<"colour", ":", "x">>)>>)}
Classes == {"Header", "FileHeader", "SymlinkHeader", "DirectoryHeader", "DirectoryFooter"}
NoSmudge == [via |-> "none", ret |-> "none", err |-> NoErr, ran |-> FALSE,
             lfs |-> <<>>, left |-> {}]
SmudgeViaDecodeResult(r) ==
    [via |-> "decode", ret |-> r.ret, err |-> r.err, ran |-> r.ran, lfs |-> <<>>,
     left |-> r.d.esc]

\* Headers and input for calling decode_file and decode_symlink directly.
CallPayload == T(<<"h", "i">>)
\* The root the direct calls materialize into: empty, or holding the
\* directory a.
CallRoots == {NoDecode, [NoDecode EXCEPT !.d.mat = (<<DirName>> :> DirNode)]}
CallInput == CallPayload \o NL
CallNames == {RelPath(<<"a">>), RelPath(<<"b">>), RelPath(<<"a", "b">>),
              RelPath(<<"..", "a">>), PyPath(TRUE, <<"a">>)}
CallTargets == {RelPath(<<"a">>), RelPath(<<"..", "a">>), PyPath(TRUE, <<"a">>)}
CallShas == {HexStr(hash(CallPayload)), HexStr(hash(<<>>))}
CallFileHeaders == {FileHeader(n, sha, Len(CallPayload)) : n \in CallNames, sha \in CallShas}
CallSymlinkHeaders == {SymlinkHeader(n, t) : n \in CallNames, t \in CallTargets}

\* What the clean filter leaves for smudge: the git-lfs pointer, then text.
Pointer == T(<<"version">>) \o NL \o T(<<"oid">>) \o NL \o T(<<"size">>) \o NL
EmptyDirStream ==
    HeaderText(DirectoryHeader(RelPath(<<>>)))
        \o HeaderText(DirectoryFooter(RelPath(<<>>),
                                      HexStr(hash(HeaderText(DirectoryHeader(RelPath(<<>>)))))))
SmudgeTexts == {<<>>, EmptyDirStream, SubSeq(EmptyDirStream, 1, 12),
                NL \o T(<<"x">>) \o NL, SEPARATOR \o NL}
SmudgeInputs == {Pointer \o t : t \in SmudgeTexts}

\* The bytes a payload byte may be changed into.
TamperBytes == {"x", "-"}

\* ---------------------------------------------------------------- actions
Init ==
    /\ \/ /\ pc = "start" /\ fs \in Trees
          /\ installed = {} /\ gitconfig = NoConfig
       \/ /\ pc = "root" /\ fs = EmptyMap
          /\ installed = {} /\ gitconfig = NoConfig
       \/ /\ pc = "pair" /\ fs \in PairTrees
          /\ installed = {} /\ gitconfig = NoConfig
       \/ /\ pc = "loop" /\ fs \in LoopTrees
          /\ installed = {} /\ gitconfig = NoConfig
       \/ /\ pc = "repo" /\ fs = EmptyMap
          /\ installed = {} /\ gitconfig = NoConfig
       \/ /\ pc = "git" /\ fs = EmptyMap
          /\ installed \in SUBSET Versions
          /\ gitconfig \in [hotl : {0} \cup Versions, lfs : BOOLEAN, filter : {FALSE}]
    /\ gitattributes \in (IF pc = "repo" THEN AttrFiles ELSE {MissingFile})
    /\ listing2 = Names
    /\ enc = NoResult
    /\ enc2 = NoResult
    /\ inp = <<>>
    /\ how = [kind |-> "none", at |-> 0]
    /\ dec \in (IF pc = "root" THEN CallRoots ELSE {NoDecode})
    /\ calls = 0
    /\ two = IF pc = "pair"
             THEN [IdleRuns EXCEPT !.runs = <<NewRun(<<>>), NewRun(<<DirName>>)>>]
             ELSE IF pc = "loop" THEN [IdleRuns EXCEPT !.runs = <<NewRun(<<>>)>>]
             ELSE IdleRuns
    /\ tmp = NoTemp
    /\ rh = NoRead
    /\ sm = NoSmudge

\* encode_directory(root, root, f_output) on a fresh output, the filesystem
\* listing the children in any order.
Encode ==
    /\ pc = "start"
    /\ \E ord \in Perms : enc' = encode_directory(<<>>, NewOutput, ord)
    /\ pc' = "encoded"
    /\ UNCHANGED <<fs, listing2, enc2, inp, how, dec, calls, side>>

\* The bytes of one file of the encoded tree are changed.
ChangeFile ==
    /\ pc = "encoded" /\ enc.err = ""
    /\ \E p \in {q \in DOMAIN fs : fs[q].kind = "file"} :
       \E data \in ChangedContents \ {fs[p].data} :
        /\ fs' = [fs EXCEPT ![p] = FileNode(data)]
        /\ how' = [kind |-> "changed", at |-> p]
    /\ pc' = "changed"
    /\ UNCHANGED <<enc, listing2, enc2, inp, dec, calls, side>>

\* encode_directory(root, root, f_output) on the changed tree.
EncodeChanged ==
    /\ pc = "changed"
    /\ enc2' = encode_directory(<<>>, NewOutput, Names)
    /\ pc' = "encoded changed"
    /\ UNCHANGED <<fs, enc, listing2, inp, how, dec, calls, side>>

\* The same tree encoded a second time, the filesystem listing in any order.
EncodeAgain ==
    /\ pc = "encoded"
    /\ \E ord \in Perms :
        /\ listing2' = ord
        /\ enc2' = encode_directory(<<>>, NewOutput, ord)
    /\ pc' = "encoded twice"
    /\ UNCHANGED <<fs, enc, inp, how, dec, calls, side>>

\* The frames of the encoder's output that are File entries.
IsFileFrame(e) == Get(e.hdr, K("type")) = PyStr(K("file"))
PayloadStart(e) == e.at + e.len
PayloadLen(e) == Get(e.hdr, K("length")).int
RootFooterAt(w) == w.log[Len(w.log)].at

\* The stream reaches the decoder as written.
PassStream ==
    /\ pc = "encoded" /\ enc.err = ""
    /\ inp' = enc.w.out
    /\ how' = [kind |-> "asis", at |-> 0]
    /\ pc' = "ready"
    /\ UNCHANGED <<fs, enc, listing2, enc2, dec, calls, side>>

\* One byte of one file's payload is changed.
TamperPayload ==
    /\ pc = "encoded" /\ enc.err = ""
    /\ \E k \in 1..Len(enc.w.log) :
        /\ IsFileFrame(enc.w.log[k])
        /\ \E j \in PayloadStart(enc.w.log[k])..(PayloadStart(enc.w.log[k]) + PayloadLen(enc.w.log[k]) - 1) :
           \E b \in TamperBytes :
            /\ enc.w.out[j] # Ch(b)
            /\ inp' = [enc.w.out EXCEPT ![j] = Ch(b)]
            /\ how' = [kind |-> "tampered", at |-> j]
    /\ pc' = "ready"
    /\ UNCHANGED <<fs, enc, listing2, enc2, dec, calls, side>>

\* The stream is cut off before the root Footer.
Truncate ==
    /\ pc = "encoded" /\ enc.err = ""
    /\ \E n \in 0..(RootFooterAt(enc.w) - 1) :
        /\ inp' = SubSeq(enc.w.out, 1, n)
        /\ how' = [kind |-> "truncated", at |-> n]
    /\ pc' = "ready"
    /\ UNCHANGED <<fs, enc, listing2, enc2, dec, calls, side>>

\* with decode_stream(f_input): ...
DecodeStream ==
    /\ pc = "ready"
    /\ dec' = decode_stream(inp)
    /\ tmp' = ExitTemporaryDirectory(
                [EnterTemporaryDirectory(NoTemp) EXCEPT !.left = dec'.d.esc], dec'.err)
    /\ pc' = "decoded"
    /\ UNCHANGED <<fs, enc, listing2, enc2, inp, how, calls, rh, sm, git, two>>

\* smudge_via_decode(file, f_input, hotl) on the stream as the encoder wrote
\* it, or cut off before the root Footer.
SmudgeViaDecode ==
    /\ pc = "encoded" /\ enc.err = ""
    /\ \E n \in {RootFooterAt(enc.w) - 1, Len(enc.w.out)} : \E hotlErr \in RunOutcomes :
        /\ inp' = SubSeq(enc.w.out, 1, n)
        /\ how' = [kind |-> IF n = Len(enc.w.out) THEN "asis" ELSE "truncated", at |-> n]
        /\ sm' = SmudgeViaDecodeResult(smudge_via_decode(inp', hotlErr))
        /\ tmp' = ExitTemporaryDirectory(
                    [EnterTemporaryDirectory(NoTemp) EXCEPT !.left = sm'.left], sm'.err)
    /\ pc' = "smudged"
    /\ UNCHANGED <<fs, enc, listing2, enc2, dec, calls, rh, git, two>>

\* with encode_stream(hotl, file, f_input, f_output) as (dir, blob): the body
\* runs the converter on the blob and encodes dir; it ends well or raises.
EncodeStream ==
    /\ pc = "root" /\ calls = 0
    /\ \E bodyErr \in RunOutcomes :
        tmp' = ExitTemporaryDirectory(
                 ExitNamedTemporaryFile(
                   EnterNamedTemporaryFile(EnterTemporaryDirectory(NoTemp)), bodyErr),
                 bodyErr)
    /\ pc' = "cleaned"
    /\ UNCHANGED <<fs, enc, listing2, enc2, inp, how, dec, calls, rh, sm, git, two>>

\* read_header(cls, f_input) with f_input at the start of a frame the encoder
\* wrote, cls the frame's own class or the base class Header.
ReadFrame ==
    /\ pc = "encoded" /\ enc.err = ""
    /\ \E k \in 1..Len(enc.w.log) : \E cls \in {"Header", ClassOf(enc.w.log[k].hdr)} :
        rh' = [src |-> "frame", at |-> k, cls |-> cls,
               res |-> read_header(cls, enc.w.out, enc.w.log[k].at)]
    /\ pc' = "read"
    /\ UNCHANGED <<fs, enc, listing2, enc2, inp, how, dec, calls, tmp, sm, git, two>>

\* read_header(cls, f_input) on a frame that is not well formed.
ReadMalformed ==
    /\ pc = "root" /\ calls = 0
    /\ \E f \in MalformedFrames : \E cls \in Classes :
        /\ inp' = f
        /\ rh' = [src |-> "malformed", at |-> 1, cls |-> cls, res |-> read_header(cls, f, 1)]
    /\ pc' = "read"
    /\ UNCHANGED <<fs, enc, listing2, enc2, how, dec, calls, tmp, sm, git, two>>

\* install(hotl=hotl) of install.py, hotl given or not.
Install ==
    /\ pc \in {"git", "repo", "repo installed"}
    /\ \E hotl \in (IF pc = "git" THEN {None} \cup Versions ELSE {None}) :
        /\ gitconfig' = install(gitconfig, installed, hotl)
        /\ how' = [kind |-> "install", at |-> hotl]
    /\ gitattributes' = InstallAttributes(gitattributes)
    /\ pc' = CASE pc = "git" -> "installed"
              [] pc = "repo" -> "repo installed"
              [] OTHER -> "repo installed twice"
    /\ UNCHANGED <<fs, enc, listing2, enc2, inp, dec, calls, tmp, rh, sm, installed, two>>

\* install(dir) of hda_filter.py.
HdaInstall ==
    /\ pc \in {"git", "repo"}
    /\ gitconfig' = hda_install(gitconfig, installed)
    /\ how' = [kind |-> "hda_filter install", at |-> None]
    /\ gitattributes' = HdaInstallAttributes(gitattributes)
    /\ pc' = "installed"
    /\ UNCHANGED <<fs, enc, listing2, enc2, inp, dec, calls, tmp, rh, sm, installed, two>>

\* Invocation k of encode_directory runs its next statements; the other
\* invocation, when there is one, may be anywhere in its own run.
StepEncode(k) ==
    /\ pc \in {"pair", "loop"}
    /\ k \in 1..Len(two.runs)
    /\ two.runs[k].st \in {"new", "running"}
    /\ two' = [StepRun(two, k) EXCEPT !.mixed =
                 @ \/ (\A j \in 1..Len(two.runs) : two.runs[j].st = "running")]
    /\ UNCHANGED <<fs, enc, listing2, enc2, inp, how, dec, calls, tmp, rh, sm, git, pc>>

\* git runs the smudge filter of hda_filter.py on what clean left.
Smudge ==
    /\ pc = "git"
    /\ \E s \in SmudgeInputs : \E lfsErr \in RunOutcomes : \E hotlErr \in RunOutcomes :
        /\ inp' = s
        /\ sm' = smudge(s, gitconfig, lfsErr, hotlErr)
    /\ tmp' = IF gitconfig.hotl = 0 THEN NoTemp
              ELSE ExitTemporaryDirectory(EnterTemporaryDirectory(NoTemp), sm'.err)
    /\ pc' = "filtered"
    /\ UNCHANGED <<fs, enc, listing2, enc2, how, dec, calls, rh, git, two>>

\* decode_file(root, file_header, f_input) called on a materialization root.
DecodeFileCall ==
    /\ pc = "root" /\ calls < MaxCalls
    /\ \E h \in CallFileHeaders :
        dec' = decode_file(CallInput, [dec.d EXCEPT !.pos = 1], h)
    /\ calls' = calls + 1
    /\ UNCHANGED <<fs, enc, listing2, enc2, inp, how, pc, side>>

\* decode_symlink(root, sl_header) called on a materialization root.
DecodeSymlinkCall ==
    /\ pc = "root" /\ calls < MaxCalls
    /\ \E h \in CallSymlinkHeaders :
        dec' = decode_symlink(dec.d, h)
    /\ calls' = calls + 1
    /\ UNCHANGED <<fs, enc, listing2, enc2, inp, how, pc, side>>

Next ==
    \/ Encode
    \/ EncodeAgain
    \/ ChangeFile
    \/ EncodeChanged
    \/ PassStream
    \/ TamperPayload
    \/ Truncate
    \/ DecodeStream
    \/ SmudgeViaDecode
    \/ EncodeStream
    \/ Smudge
    \/ \E k \in 1..2 : StepEncode(k)
    \/ Install
    \/ HdaInstall
    \/ ReadFrame
    \/ ReadMalformed
    \/ DecodeFileCall
    \/ DecodeSymlinkCall

Spec == Init /\ [][Next]_vars

\* The encoder alone, statement by statement.
RunInit == Init /\ pc \in {"pair", "loop"}
RunNext == \E k \in 1..2 : StepEncode(k)

\* Some invocation has statements left to run: the condition under which
\* RunNext can take a step, each step moving a child index or the stack.
Running ==
    /\ pc \in {"pair", "loop"}
    /\ \E k \in 1..Len(two.runs) : two.runs[k].st \in {"new", "running"}

\* The interpreter keeps executing while an invocation has not ended:
\* WF_vars(RunNext), with ENABLED <<RunNext>>_vars written as Running.
KeepsRunning == ([]<>~Running) \/ ([]<><<RunNext>>_vars)

RunSpec == RunInit /\ [][RunNext]_vars /\ KeepsRunning

\* ---------------------------------------------------------------- properties
Frames == enc.w.log
FrameType(e) == Get(e.hdr, K("type")).v
FrameName(e) == Get(e.hdr, K("name")).parts

\* A tree of files, directories and symlinks that stay inside root.
Plain(tree) ==
    \A p \in DOMAIN tree :
        /\ tree[p].kind \in {"file", "dir", "symlink"}
        /\ tree[p].kind = "symlink" => tree[p].target.area = "in"

SameTree(mat, tree) ==
    /\ DOMAIN mat = DOMAIN tree
    /\ \A p \in DOMAIN tree :
        /\ mat[p].kind = tree[p].kind
        /\ mat[p].data = tree[p].data
        /\ tree[p].kind = "symlink" => mat[p].target.path = tree[p].target.path

\* C1: decoding the stream encode_directory wrote for a tree of files,
\* directories and non-escaping symlinks completes without error and
\* materializes the same paths, file bytes and symlink targets.
RoundTrip ==
    (pc = "decoded" /\ how.kind = "asis" /\ Plain(fs))
        => (dec.err = NoErr /\ SameTree(dec.d.mat, fs))

\* C2: when one payload byte of an encoder-produced stream was changed,
\* decoding fails with the file hash-mismatch error.
TamperDetected ==
    (pc = "decoded" /\ how.kind = "tampered")
        => dec.err = Err("ValueError", "File hash mismatch")

\* C3: when an encoder-produced stream is cut off before its root Footer,
\* decoding fails with the 'Unexpected EOF' error and never succeeds.
TruncationDetected ==
    (pc = "decoded" /\ how.kind = "truncated")
        => (dec.err.exc # "" /\ dec.err.msg = "Unexpected EOF")

\* A truncated stream that still holds a complete File entry was decoded.
TruncationWitness ==
    /\ pc = "decoded" /\ how.kind = "truncated"
    /\ \E k \in 1..Len(Frames) :
        /\ IsFileFrame(Frames[k])
        /\ PayloadLen(Frames[k]) > 0
        /\ PayloadStart(Frames[k]) + PayloadLen(Frames[k]) <= how.at

EscapingLinks(tree) ==
    {p \in DOMAIN tree : tree[p].kind = "symlink" /\ tree[p].target.area = "out"}

\* C4: encode_directory raises whenever the tree contains a symlink whose
\* target lies outside root, whatever the target is.
EscapeRejected ==
    (pc = "encoded" /\ EscapingLinks(fs) # {}) => enc.err # ""

\* C5: a failure of the top-level decode reaches the caller as a
\* DecoderFailure and as no other exception type.
OnlyDecoderFailure ==
    (pc = "decoded" /\ dec.err # NoErr) => dec.err.exc = "DecoderFailure"

\* C6: decoding never creates a file or symlink outside the
\* materialization root.
NoWriteOutsideRoot == dec.d.esc = {}

\* C7: decoding an unmodified encoder-produced stream reaches the Footer of
\* every directory scope with an accumulated digest equal to the declared sha.
FooterVerifies ==
    (pc = "decoded" /\ how.kind = "asis")
        => /\ Len(dec.d.footers)
                = Cardinality({k \in 1..Len(Frames) : FrameType(Frames[k]) = K("footer")})
           /\ \A i \in 1..Len(dec.d.footers) :
                dec.d.footers[i].declared = PyStr(dec.d.footers[i].accumulated)

\* C8: encoding the same tree twice writes the same bytes and returns the
\* same digest, whatever the order the filesystem lists children in.
Determinism ==
    pc = "encoded twice" => (enc2.w.out = enc.w.out /\ enc2.digest = enc.digest
                             /\ enc2.err = enc.err)

\* Two successful encodes of a directory with two children, the second
\* with the children listed in descending order.
DeterminismWitness ==
    /\ pc = "encoded twice" /\ enc.err = "" /\ enc2.err = ""
    /\ iterdir(<<>>, listing2) = <<<<"b">>, <<"a">>>>

\* The frames from index i on close the directories on the stack in order,
\* each entry lying directly in the innermost open directory.
RECURSIVE NestedFrom(_, _, _)
NestedFrom(log, i, stack) ==
    IF i > Len(log) THEN stack = <<>>
    ELSE LET e == log[i]
             ty == FrameType(e)
             name == FrameName(e)
             top == stack[Len(stack)]
         IN IF ty = K("directory")
            THEN /\ IF stack = <<>> THEN i = 1 /\ name = <<>>
                    ELSE name # <<>> /\ Front(name) = top
                 /\ NestedFrom(log, i + 1, Append(stack, name))
            ELSE IF ty = K("footer")
            THEN /\ stack # <<>>
                 /\ name = top
                 /\ NestedFrom(log, i + 1, Front(stack))
            ELSE /\ stack # <<>>
                 /\ name # <<>> /\ Front(name) = top
                 /\ NestedFrom(log, i + 1, stack)

\* C9: in the stream of a completed encode_directory call every Directory
\* header is closed by exactly one Footer at its depth, after all entries of
\* the directory and before any later entry of an enclosing directory.
ProperlyNested ==
    (pc = "encoded" /\ enc.err = "") => NestedFrom(Frames, 1, <<>>)

\* A completed encode with a non-empty subdirectory followed by a sibling.
NestedWitness ==
    /\ pc = "encoded" /\ enc.err = ""
    /\ \E i, j, k \in 1..Len(Frames) :
        /\ i + 1 < j /\ j < k /\ k < Len(Frames)
        /\ FrameType(Frames[i]) = K("directory") /\ FrameName(Frames[i]) # <<>>
        /\ FrameType(Frames[j]) = K("footer") /\ FrameName(Frames[j]) = FrameName(Frames[i])

\* The bytes between the end of frame k and the start of the next frame.
AfterFrame(k) ==
    SubSeq(enc.w.out, Frames[k].at + Frames[k].len,
           IF k < Len(Frames) THEN Frames[k + 1].at - 1 ELSE Len(enc.w.out))

\* C10: for every File entry written, the frame in the stream declares as
\* length the number of payload bytes before the single trailing newline and
\* as sha256 the digest of exactly those bytes.
FilePayloadExact ==
    pc = "encoded" =>
    \A k \in 1..Len(Frames) :
        IsFileFrame(Frames[k]) =>
            LET region == AfterFrame(k) IN
            /\ region # <<>>
            /\ region[Len(region)] = Ch("\n")
            /\ SubSeq(enc.w.out, Frames[k].at, Frames[k].at + Frames[k].len - 1)
                 = HeaderText(FileHeader(RelPath(FrameName(Frames[k])),
                                         HexStr(hash(Front(region))),
                                         Len(region) - 1))

\* A File entry whose payload is the sentinel line was written.
FilePayloadWitness ==
    /\ pc = "encoded"
    /\ \E k \in 1..Len(Frames) :
        IsFileFrame(Frames[k]) /\ Front(AfterFrame(k)) = SEPARATOR \o NL

\* C11: once decode_stream, smudge_via_decode or encode_stream has been left,
\* by its end or by an exception, its temporary directory is removed, its
\* temporary blob no longer exists and nothing it wrote remains elsewhere.
TempRemoved ==
    pc \in {"decoded", "smudged", "cleaned"} =>
        /\ tmp.dir = "removed"
        /\ tmp.blob # "live"
        /\ tmp.left = {}

\* decode_stream left by the truncation error, the directory removed.
TempRemovedWitness ==
    /\ pc = "decoded" /\ how.kind = "truncated"
    /\ dec.err = Err("ValueError", "Unexpected EOF")
    /\ tmp.dir = "removed"

\* C12: whenever smudge has a configured converter and decoding the text
\* fails, by returning nothing or by an exception, smudge hands the pointer it
\* read at the head of the input to git-lfs and does not run the converter;
\* the failure it may still end with is git-lfs's own.
DecodeFailed(r) == r.err # NoErr \/ r.value = "None"
DirectoriesReproduced ==
    (pc = "decoded" /\ how.kind = "asis" /\ Plain(fs)) =>
        \A k \in 1..Len(Frames) :
            FrameType(Frames[k]) = K("directory") =>
                MatKind(dec.d.mat, Loc("in", FrameName(Frames[k]))) = "dir"

\* C14: read_header on a frame with a line without ':', with a field its
\* kind does not declare or with a length that is no number raises an error
\* and returns no header.
MalformedRejected ==
    rh.src = "malformed" => (rh.res.err # NoErr /\ rh.res.hdr = <<>>)

\* C19: read_header on a frame write_header wrote returns, without error,
\* the header that was written, whether the caller passes the frame's own
\* class or the base class Header.
HeaderRoundTrip ==
    rh.src = "frame" =>
        (rh.res.err = NoErr /\ rh.res.hdr = Frames[rh.at].hdr)

\* C20: when read_header has returned for a File frame, the input is at the
\* first byte of the file's payload.
ReaderStopsAtPayload ==
    (rh.src = "frame" /\ IsFileFrame(Frames[rh.at])) =>
        rh.res.pos = PayloadStart(Frames[rh.at])

\* The fields a header class declares, in declaration order.
DeclaredKeys(cls) ==
    CASE cls = "FileHeader" -> <<K("type"), K("name"), K("sha256"), K("length")>>
      [] cls = "SymlinkHeader" -> <<K("type"), K("name"), K("target")>>
      [] cls = "DirectoryHeader" -> <<K("type"), K("name")>>
      [] OTHER -> <<K("type"), K("name"), K("sha")>>

\* C15: every frame write_header wrote is a blank line, the sentinel line,
\* one key:value line per declared field in declaration order and the
\* sentinel line again; the string returned is the text written; and nothing
\* is left unflushed when write_header returns, before the payload is written.
FrameExact ==
    pc = "encoded" =>
    \A k \in 1..Len(Frames) :
        LET e == Frames[k]
            keys == DeclaredKeys(ClassOf(e.hdr))
        IN /\ Len(e.hdr) = Len(keys)
           /\ SubSeq(enc.w.out, e.at, e.at + e.len - 1)
                = FrameOf([i \in 1..Len(keys) |->
                             keys[i] \o <<Ch(":")>> \o Format(Get(e.hdr, keys[i]))])
           /\ e.text = SubSeq(enc.w.out, e.at, e.at + e.len - 1)
           /\ e.unflushed = 0

\* A File frame was written and its payload after it.
FrameExactWitness ==
    /\ pc = "encoded" /\ enc.err = ""
    /\ \E k \in 1..Len(Frames) :
        /\ IsFileFrame(Frames[k]) /\ PayloadLen(Frames[k]) > 0
        /\ Frames[k].unflushed = 0
        /\ AfterFrame(k) = T(<<"h", "i">>) \o NL

IsPrefix(p, q) == Len(p) <= Len(q) /\ SubSeq(q, 1, Len(p)) = p
IsEntry(e) == FrameType(e) # K("footer") /\ FrameName(e) # <<>>

\* C16: in the stream of a completed encode_directory call, every entry comes
\* after the Directory header of its directory and before that directory's
\* Footer, everything between a Directory header and its Footer lies in that
\* directory, and the entries of one directory come in ascending name order.
ScopeOrdered ==
    (pc = "encoded" /\ enc.err = "") =>
        /\ \A q \in 1..Len(Frames) :
             IsEntry(Frames[q]) =>
                \E i \in 1..(q - 1) : \E j \in (q + 1)..Len(Frames) :
                    /\ FrameType(Frames[i]) = K("directory")
                    /\ FrameType(Frames[j]) = K("footer")
                    /\ FrameName(Frames[i]) = Front(FrameName(Frames[q]))
                    /\ FrameName(Frames[j]) = Front(FrameName(Frames[q]))
                    /\ \A k \in (i + 1)..(j - 1) :
                         IsPrefix(FrameName(Frames[i]), FrameName(Frames[k]))
        /\ \A p, q \in 1..Len(Frames) :
             (/\ p < q /\ IsEntry(Frames[p]) /\ IsEntry(Frames[q])
              /\ Front(FrameName(Frames[p])) = Front(FrameName(Frames[q])))
             => NameRank(Last(FrameName(Frames[p]))) < NameRank(Last(FrameName(Frames[q])))

\* A completed encode of a root holding the subdirectory a with a child, then
\* the entry b.
ScopeOrderedWitness ==
    /\ pc = "encoded" /\ enc.err = ""
    /\ Len(Frames) = 6
    /\ FrameType(Frames[2]) = K("directory") /\ FrameName(Frames[2]) = <<"a">>
    /\ Front(FrameName(Frames[3])) = <<"a">>
    /\ FrameType(Frames[4]) = K("footer")
    /\ FrameName(Frames[5]) = <<"b">>

\* C18: after install was called without a hotl argument while some hotl
\* command exists, hdafilter.hotl names the newest installation that has one.
NewestConfigured ==
    (pc = "installed" /\ how.at = None /\ installed # {}) =>
        /\ gitconfig.hotl \in installed
        /\ \A v \in installed : v <= gitconfig.hotl

SameOutcome(run, alone) ==
    run.w = alone.w /\ run.digest = alone.digest /\ run.err = alone.err

PayloadOf(e) == SubSeq(enc.w.out, PayloadStart(e), PayloadStart(e) + PayloadLen(e) - 1)

\* C21: decoding the stream as written leaves, for every File entry, a file
\* holding the length payload bytes that follow its frame, whether or not
\* they contain the sentinel line, and the entries after it are decoded too.
PayloadVerbatim ==
    (pc = "decoded" /\ how.kind = "asis" /\ Plain(fs)) =>
        \A k \in 1..Len(Frames) :
            IsFileFrame(Frames[k]) =>
                /\ MatKind(dec.d.mat, Loc("in", FrameName(Frames[k]))) = "file"
                /\ dec.d.mat[FrameName(Frames[k])].data = PayloadOf(Frames[k])
                /\ dec.d.pos > PayloadStart(Frames[k]) + PayloadLen(Frames[k])

\* The token sequence whose digest the Footer frame e declares as sha.
ShaFed(e) == Tail(Get(e.hdr, K("sha")).v[1])

\* The Footer frame that closes the Directory frame i.
FooterOf(i) ==
    CHOOSE j \in (i + 1)..Len(Frames) :
        FrameType(Frames[j]) = K("footer") /\ FrameName(Frames[j]) = FrameName(Frames[i])

\* The Directory frame the Footer frame j closes.
HeaderOf(j) ==
    CHOOSE i \in 1..(j - 1) :
        FrameType(Frames[i]) = K("directory") /\ FrameName(Frames[i]) = FrameName(Frames[j])

\* The Footer frame of the directory that holds the directory Footer j closes.
ParentFooter(j) ==
    CHOOSE q \in (j + 1)..Len(Frames) :
        /\ FrameType(Frames[q]) = K("footer")
        /\ FrameName(Frames[q]) = Front(FrameName(Frames[j]))

\* What the frames say the encoder returned for the scope closed by Footer
\* j: the digest of what the sha names followed by the footer frame.
DigestAfter(j) == HexStr(update(ShaFed(Frames[j]), Frames[j].text))

\* What the child entry q adds to the accumulator of its directory.
Contribution(q) ==
    IF FrameType(Frames[q]) = K("directory") THEN DigestAfter(FooterOf(q))
    ELSE Frames[q].text

\* The contributions of the children of the Directory frame i that are
\* written from frame q on, in the order written.
RECURSIVE ChildFeed(_, _)
ChildFeed(i, q) ==
    IF q > Len(Frames) \/ q >= FooterOf(i) THEN <<>>
    ELSE IF IsEntry(Frames[q]) /\ Front(FrameName(Frames[q])) = FrameName(Frames[i])
    THEN Contribution(q) \o ChildFeed(i, q + 1)
    ELSE ChildFeed(i, q + 1)

\* C22: the sha of every Footer is the digest of the accumulator of its scope
\* before the footer frame is counted: it starts with the scope's Directory
\* frame, has everything the children added and not the footer; the digest
\* returned is the digest after the footer frame was fed as well, given to
\* the caller for the root and fed to the parent scope otherwise.
FooterShaThenDigest ==
    (pc = "encoded" /\ enc.err = "") =>
        \A j \in 1..Len(Frames) :
            FrameType(Frames[j]) = K("footer") =>
                /\ IsPrefix(Frames[HeaderOf(j)].text, ShaFed(Frames[j]))
                /\ Len(ShaFed(Frames[j])) =
                     Len(Frames[HeaderOf(j)].text) + Len(ChildFeed(HeaderOf(j), HeaderOf(j) + 1))
                /\ IF j = Len(Frames) THEN enc.digest = DigestAfter(j)
                   ELSE \E p \in 1..Len(ShaFed(Frames[ParentFooter(j)])) :
                            <<ShaFed(Frames[ParentFooter(j)])[p]>> = DigestAfter(j)
                /\ DigestAfter(j) # Get(Frames[j].hdr, K("sha")).v

\* A completed encode whose root holds a subdirectory with a child: two
\* footers, the inner one's digest fed to the root's accumulator.
FooterShaWitness ==
    /\ pc = "encoded" /\ enc.err = ""
    /\ \E j \in 2..(Len(Frames) - 1) :
        /\ FrameType(Frames[j]) = K("footer")
        /\ Len(ShaFed(Frames[j])) > Len(Frames[HeaderOf(j)].text)
        /\ enc.digest = DigestAfter(Len(Frames))

\* C23: the accumulator of every directory scope was fed, after the
\* Directory frame, with exactly the header frame of each File or Symlink
\* child and the digest returned for each subdirectory child, in the order
\* the children were written, and with nothing else.
AccumulatorFeed ==
    (pc = "encoded" /\ enc.err = "") =>
        \A i \in 1..Len(Frames) :
            FrameType(Frames[i]) = K("directory") =>
                ShaFed(Frames[FooterOf(i)]) =
                    update(hash(Frames[i].text), ChildFeed(i, i + 1))

\* A completed encode with a File entry, a Symlink entry and a subdirectory.
AccumulatorFeedWitness ==
    /\ pc = "encoded" /\ enc.err = ""
    /\ \E p, q, r \in 2..Len(Frames) :
        /\ FrameType(Frames[p]) = K("file") /\ AfterFrame(p) # NL
        /\ FrameType(Frames[q]) = K("symlink")
        /\ FrameType(Frames[r]) = K("directory")

\* C24: every symlink of the tree whose target lies under root is written by
\* a completed encode as one Symlink entry, with its name and its target
\* relative to root and with no payload, and no File or Directory entry
\* carries its name.
InsideLinksAsSymlinks ==
    (pc = "encoded" /\ enc.err = "") =>
        \A p \in DOMAIN fs :
            (fs[p].kind = "symlink" /\ fs[p].target.area = "in") =>
                /\ \E k \in 1..Len(Frames) :
                     /\ Frames[k].hdr = SymlinkHeader(RelPath(p), RelPath(fs[p].target.path))
                     /\ AfterFrame(k) = <<>>
                /\ \A k \in 1..Len(Frames) :
                     FrameName(Frames[k]) = p => FrameType(Frames[k]) = K("symlink")

\* C25: every link decode_symlink has created under root resolves to the
\* place its target names relative to root, at whatever depth the link is.
LinkResolvesFromRoot ==
    (pc = "root" /\ calls > 0) =>
        \A p \in DOMAIN dec.d.mat :
            dec.d.mat[p].kind = "symlink" =>
                OpenLoc(dec.d.mat, Loc("in", p)) = Norm(dec.d.mat[p].target.path, <<>>, 0)

\* The Footer frames of the encoder's stream, in the order written.
FooterFrames ==
    LET IsFooter(e) == FrameType(e) = K("footer")
    IN SelectSeq(Frames, IsFooter)

\* C26: decoding the stream as written opens a scope at every Directory
\* header and leaves it at that scope's own Footer: the footers are consumed
\* one per scope, each at the depth of its directory, the root's last, and
\* the decode then completes.
ScopesClosedByFooters ==
    (pc = "decoded" /\ how.kind = "asis" /\ Plain(fs)) =>
        /\ Len(dec.d.footers) = Len(FooterFrames)
        /\ \A n \in 1..Len(FooterFrames) :
             dec.d.footers[n].depth = Len(FrameName(FooterFrames[n]))
        /\ dec.d.pos > RootFooterAt(enc.w)
        /\ dec.err = NoErr

AllEnded == \A k \in 1..Len(two.runs) : two.runs[k].st \in {"done", "raised"}

\* C27: every encode_directory invocation that has begun ends, by returning
\* after a finite stream or by raising, also on a tree with a symlink to one
\* of its own ancestor directories or to root.
EncodeTerminates == <>AllEnded

\* An invocation has returned on a tree with a link to an ancestor, after
\* writing a Directory scope for a directory reached through that link.
EncodeTerminatesWitness ==
    /\ pc = "loop" /\ two.runs[1].st = "done"
    /\ \E p \in DOMAIN fs : \E i \in 1..Len(two.runs[1].w.log) :
        /\ fs[p].kind = "symlink" /\ fs[p].target.area = "in"
        /\ fs[p].target.path \in Ancestors(p)
        /\ FrameType(two.runs[1].w.log[i]) = K("directory")
        /\ Len(FrameName(two.runs[1].w.log[i])) > Len(p)
        /\ IsPrefix(p, FrameName(two.runs[1].w.log[i]))

\* The decode of the smudge input ran to its end and returned a digest.
Completed(r) == r.err = NoErr /\ r.value # <<>>
DecodeCompleted ==
    IF pc = "smudged" THEN Completed(DecodeAfter(inp, read_header("DirectoryHeader", inp, 1)))
    ELSE ~DecodeFailed(hda_decode_directory(Header_read(inp, read_oid(inp).pos, 2, <<>>)))

\* C28: a smudge has run the converter only if the decode of its whole input
\* completed with every hash check passed; after a decode that failed the
\* converter was not run.
ConverterOnlyAfterDecode ==
    pc \in {"smudged", "filtered"} => (sm.ran => DecodeCompleted)

\* A smudge_via_decode whose decode raised: the converter was not run.
ConverterNotRunWitness ==
    /\ pc = "smudged" /\ how.kind = "asis" /\ Len(inp) > 0
    /\ ~DecodeCompleted
    /\ sm.ret = "raised" /\ sm.err.exc = "ValueError" /\ ~sm.ran

\* The file as it was before the first install.
AttrBefore == gitattributes.was[1]

\* C29: after install, every line the file held for a pattern other than
\* '*.hda' is still in the file with the same words, whatever whitespace
\* separated them, repeated patterns and comment lines included; and a
\* second install leaves the file as the first left it.
OtherLinesKept ==
    (pc \in {"repo installed", "repo installed twice"} /\ gitattributes.err = NoErr) =>
        /\ \A i \in 1..Len(AttrBefore.lines) :
             Split(AttrBefore.lines[i])[1] # HdaPattern =>
                \E j \in 1..Len(gitattributes.lines) :
                    Split(gitattributes.lines[j]) = Split(AttrBefore.lines[i])
        /\ pc = "repo installed twice" => gitattributes.lines = gitattributes.was[2].lines

\* The sha the root Footer of the output w declares.
RootSha(w) == Get(w.log[Len(w.log)].hdr, K("sha"))

\* C30: after the bytes of one file of the tree were changed, at any depth,
\* encode_directory returns another digest for the root and writes another
\* sha in the root Footer than it did for the tree before the change.
ContentChangesDigest ==
    pc = "encoded changed" =>
        /\ enc2.err = ""
        /\ enc2.digest # enc.digest
        /\ RootSha(enc2.w) # RootSha(enc.w)

\* A file in a subdirectory was changed to other bytes of the same length,
\* and the tree encoded again.
ContentChangesWitness ==
    /\ pc = "encoded changed" /\ Len(how.at) = 2
    /\ fs[how.at].data = T(<<"y">>)
    /\ Len(enc2.w.out) = Len(enc.w.out)

====
